---- MODULE Spec2Model ----
(***************************************************************************)
(* Model of src/main.py: the URL generator (generate_urls,                 *)
(* replace_last_number) and the pipeline run of main().                    *)
(*                                                                         *)
(* Strings are sequences of one-character strings; an Optional[int] is a   *)
(* sequence of length 0 (None) or 1.                                       *)
(***************************************************************************)
EXTENDS Integers, Sequences, FiniteSets, TLC

\* ------------------------------------------------------------------------
\* Bounds of the model
\* ------------------------------------------------------------------------
\* the largest start and count the generator is called with, the pages an
\* earlier run may have left, the failures the environment may inject in a
\* run, and the calls of a stage (its first MaxFailPos) that may fail
MaxStart == 1
MaxCount == 2
MaxOld == 1
MaxFail == 1
MaxFailPos == 2
MaxCalls == 2
MaxPadding == 3

\* ------------------------------------------------------------------------
\* Python values
\* ------------------------------------------------------------------------
None == <<>>
Some(x) == <<x>>
Val(o) == o[1]

Min(S) == CHOOSE x \in S : \A y \in S : x <= y
Max(S) == CHOOSE x \in S : \A y \in S : y <= x

DigitSeq == <<"0", "1", "2", "3", "4", "5", "6", "7", "8", "9">>
Digits == {DigitSeq[k] : k \in 1..10}
DigitChar(d) == DigitSeq[d + 1]
DigitVal(c) == (CHOOSE k \in 1..10 : DigitSeq[k] = c) - 1

\* str(n) of a non-negative int
RECURSIVE NatToStr(_)
NatToStr(n) ==
    IF n < 10 THEN <<DigitChar(n)>>
    ELSE NatToStr(n \div 10) \o <<DigitChar(n % 10)>>

\* str(n)
IntToStr(n) == IF n < 0 THEN <<"-">> \o NatToStr(0 - n) ELSE NatToStr(n)

\* int(s) of a string of decimal digits
RECURSIVE StrToNat(_)
StrToNat(s) ==
    IF Len(s) = 0 THEN 0
    ELSE 10 * StrToNat(SubSeq(s, 1, Len(s) - 1)) + DigitVal(s[Len(s)])

Fill(c, k) == [j \in 1..k |-> c]

\* str.zfill(w): zeros go after a leading sign
zfill(s, w) ==
    IF Len(s) >= w THEN s
    ELSE IF Len(s) > 0 /\ s[1] \in {"+", "-"}
         THEN <<s[1]>> \o Fill("0", w - Len(s)) \o Tail(s)
         ELSE Fill("0", w - Len(s)) \o s

StartsWithAt(s, k, pat) ==
    /\ k >= 1
    /\ k + Len(pat) - 1 <= Len(s)
    /\ SubSeq(s, k, k + Len(pat) - 1) = pat

\* pat in s
Contains(s, pat) == \E k \in 1..Len(s) : StartsWithAt(s, k, pat)

\* str.replace(old, new): every non-overlapping occurrence, left to right
RECURSIVE Replace(_, _, _)
Replace(s, old, new) ==
    IF Len(s) < Len(old) \/ Len(s) = 0 THEN s
    ELSE IF StartsWithAt(s, 1, old)
         THEN new \o Replace(SubSeq(s, Len(old) + 1, Len(s)), old, new)
         ELSE <<s[1]>> \o Replace(Tail(s), old, new)

\* ------------------------------------------------------------------------
\* re.finditer(r"\d+", s): the last match
\* ------------------------------------------------------------------------
DigitPositions(s) == {k \in 1..Len(s) : s[k] \in Digits}
HasDigits(s) == DigitPositions(s) # {}
LastRunEnd(s) == Max(DigitPositions(s))
LastRunStart(s) ==
    Min({j \in 1..LastRunEnd(s) : \A k \in j..LastRunEnd(s) : s[k] \in Digits})
LastRun(s) == SubSeq(s, LastRunStart(s), LastRunEnd(s))

\* A mutant of replace_last_number: the number is not padded.
replace_last_number_nopad(url, n, width) ==
    SubSeq(url, 1, LastRunStart(url) - 1)
        \o IntToStr(n)
        \o SubSeq(url, LastRunEnd(url) + 1, Len(url))

\* replace_last_number(url, n, width), for a url that holds a digit run
\* (generate_urls calls it only after its own check for one).
replace_last_number(url, n, width) ==
    LET original == LastRun(url)
        w == IF width = None THEN Len(original) ELSE Val(width)
    IN  SubSeq(url, 1, LastRunStart(url) - 1)
            \o zfill(IntToStr(n), w)
            \o SubSeq(url, LastRunEnd(url) + 1, Len(url))

\* ------------------------------------------------------------------------
\* re.search(r"\{page(?::0?(\d+)d)?\}", s)
\* ------------------------------------------------------------------------
PagePrefix == <<"{", "p", "a", "g", "e">>
PageMarker == <<"{", "p", "a", "g", "e", "}">>

\* end of the maximal digit run that starts at k (k - 1 when s[k] is no digit)
DigitRunEndFrom(s, k) ==
    Max({k - 1} \cup {e \in k..Len(s) : \A j \in k..e : s[j] \in Digits})

\* the pattern matches at position k
FmtMatchAt(s, k) ==
    /\ StartsWithAt(s, k, PagePrefix)
    /\ \/ StartsWithAt(s, k + 5, <<"}">>)
       \/ /\ StartsWithAt(s, k + 5, <<":">>)
          /\ DigitRunEndFrom(s, k + 6) >= k + 6
          /\ StartsWithAt(s, DigitRunEndFrom(s, k + 6) + 1, <<"d", "}">>)

FmtMatches(s) == {k \in 1..Len(s) : FmtMatchAt(s, k)}

\* group(1) of the leftmost match, None when the group took no part: the
\* greedy 0? takes a leading zero whenever a digit is left for (\d+)
FmtGroup1(s) ==
    LET k == Min(FmtMatches(s))
        e == DigitRunEndFrom(s, k + 6)
        run == SubSeq(s, k + 6, e)
    IN  IF s[k + 5] = "}" THEN None
        ELSE IF run[1] = "0" /\ Len(run) > 1 THEN Some(Tail(run))
        ELSE Some(run)

\* width as generate_urls computes it in placeholder mode
PlaceholderWidth(s) ==
    IF FmtMatches(s) = {} THEN 0
    ELSE IF FmtGroup1(s) = None THEN 0
    ELSE StrToNat(Val(FmtGroup1(s)))

\* ------------------------------------------------------------------------
\* str.format(page=n), for format strings whose fields are {name} or
\* {name:[0][width][d]}
\* ------------------------------------------------------------------------
FmtOk(s) == [ok |-> TRUE, s |-> s, exc |-> ""]
FmtErr(e) == [ok |-> FALSE, s |-> <<>>, exc |-> e]
FmtCat(s, r) == IF r.ok THEN FmtOk(s \o r.s) ELSE r

\* format(n, spec)
FormatSpec(spec, n) ==
    LET body == IF Len(spec) > 0 /\ spec[Len(spec)] = "d"
                THEN SubSeq(spec, 1, Len(spec) - 1) ELSE spec
    IN  IF \E k \in 1..Len(body) : body[k] \notin Digits
        THEN FmtErr("ValueError")
        ELSE IF Len(body) = 0 THEN FmtOk(IntToStr(n))
        ELSE IF body[1] = "0"
             THEN FmtOk(zfill(IntToStr(n), StrToNat(body)))
             ELSE FmtOk(Fill(" ", StrToNat(body) - Len(IntToStr(n))) \o IntToStr(n))

\* one replacement field, the text between { and }
FormatField(field, n) ==
    LET colons == {k \in 1..Len(field) : field[k] = ":"}
        name == IF colons = {} THEN field ELSE SubSeq(field, 1, Min(colons) - 1)
        spec == IF colons = {} THEN <<>> ELSE SubSeq(field, Min(colons) + 1, Len(field))
    IN  IF name = <<"p", "a", "g", "e">> THEN FormatSpec(spec, n)
        ELSE IF \A k \in 1..Len(name) : name[k] \in Digits
             THEN FmtErr("IndexError")
             ELSE FmtErr("KeyError")

RECURSIVE FormatFrom(_, _, _)
FormatFrom(s, k, n) ==
    IF k > Len(s) THEN FmtOk(<<>>)
    ELSE IF s[k] = "{"
         THEN IF StartsWithAt(s, k + 1, <<"{">>)
              THEN FmtCat(<<"{">>, FormatFrom(s, k + 2, n))
              ELSE LET closes == {j \in (k + 1)..Len(s) : s[j] = "}"}
                   IN  IF closes = {} THEN FmtErr("ValueError")
                       ELSE LET r == FormatField(SubSeq(s, k + 1, Min(closes) - 1), n)
                            IN  IF r.ok
                                THEN FmtCat(r.s, FormatFrom(s, Min(closes) + 1, n))
                                ELSE r
    ELSE IF s[k] = "}"
         THEN IF StartsWithAt(s, k + 1, <<"}">>)
              THEN FmtCat(<<"}">>, FormatFrom(s, k + 2, n))
              ELSE FmtErr("ValueError")
    ELSE FmtCat(<<s[k]>>, FormatFrom(s, k + 1, n))

\* template_url.format(page=n)
Format(s, n) == FormatFrom(s, 1, n)

\* ------------------------------------------------------------------------
\* generate_urls: a generator, resumed by next().  g is its frame:
\* pc "start" (not yet run), "loop" (suspended at a yield), "done", "raised".
\* ------------------------------------------------------------------------
GenFresh == [pc |-> "start", i |-> 0, end |-> 0, width |-> 0, exc |-> ""]
GenRaised(e) == [pc |-> "raised", i |-> 0, end |-> 0, width |-> 0, exc |-> e]

\* (count or 0)
CountOrZero(count) == IF count = None THEN 0 ELSE Val(count)

\* A mutant of GenPrepare: the end of a counted range is off by one.
GenPrepare_offbyone(template_url, start, end, count) ==
    IF ~Contains(template_url, PagePrefix) /\ ~HasDigits(template_url)
    THEN GenRaised("ValueError: no digits and no placeholder")
    ELSE IF end = None /\ count = None
    THEN GenRaised("ValueError: no end and no count")
    ELSE [pc |-> "loop", i |-> start,
          end |-> IF end = None THEN start + CountOrZero(count) ELSE Val(end),
          width |-> IF Contains(template_url, PagePrefix)
                    THEN PlaceholderWidth(template_url)
                    ELSE Len(LastRun(template_url)),
          exc |-> ""]

\* A mutant of GenPrepare: a range with neither end nor count is not refused,
\* (count or 0) makes it empty.
GenPrepare_norangecheck(template_url, start, end, count) ==
    IF ~Contains(template_url, PagePrefix) /\ ~HasDigits(template_url)
    THEN GenRaised("ValueError: no digits and no placeholder")
    ELSE [pc |-> "loop", i |-> start,
          end |-> IF end = None THEN start + CountOrZero(count) - 1 ELSE Val(end),
          width |-> IF Contains(template_url, PagePrefix)
                    THEN PlaceholderWidth(template_url)
                    ELSE Len(LastRun(template_url)),
          exc |-> ""]

\* the body of generate_urls up to its for loop: the frame at the loop's
\* head, or the exception raised before it
GenPrepare(template_url, start, end, count) ==
    IF Contains(template_url, PagePrefix)
    THEN IF end = None /\ count = None
         THEN GenRaised("ValueError: no end and no count")
         ELSE [pc |-> "loop", i |-> start,
               end |-> IF end = None THEN start + CountOrZero(count) - 1 ELSE Val(end),
               width |-> PlaceholderWidth(template_url), exc |-> ""]
    ELSE IF ~HasDigits(template_url)
    THEN GenRaised("ValueError: no digits and no placeholder")
    ELSE IF end = None /\ count = None
    THEN GenRaised("ValueError: no end and no count")
    ELSE [pc |-> "loop", i |-> start,
          end |-> IF end = None THEN start + CountOrZero(count) - 1 ELSE Val(end),
          width |-> Len(LastRun(template_url)), exc |-> ""]

GenYield(u, g) == [kind |-> "yield", url |-> u, page |-> g.i, exc |-> "",
                   g |-> [g EXCEPT !.i = g.i + 1]]
GenStop(g) == [kind |-> "stop", url |-> <<>>, page |-> 0, exc |-> "",
               g |-> [g EXCEPT !.pc = "done"]]
GenRaise(e) == [kind |-> "raise", url |-> <<>>, page |-> 0, exc |-> e,
                g |-> GenRaised(e)]

\* one turn of the for loop of generate_urls, from its head
GenIter(template_url, g) ==
    IF g.i > g.end THEN GenStop(g)
    ELSE IF Contains(template_url, PagePrefix)
    THEN IF g.width # 0
         THEN LET r == Format(template_url, g.i)
              IN  IF r.ok THEN GenYield(r.s, g) ELSE GenRaise(r.exc)
         ELSE GenYield(Replace(template_url, PageMarker, IntToStr(g.i)), g)
    ELSE GenYield(replace_last_number(template_url, g.i, Some(g.width)), g)

\* next(gen) on generate_urls(template_url, start, end, count)
generate_urls(template_url, start, end, count, g) ==
    IF g.pc = "start"
    THEN LET p == GenPrepare(template_url, start, end, count)
         IN  IF p.pc = "raised" THEN GenRaise(p.exc) ELSE GenIter(template_url, p)
    ELSE IF g.pc = "loop" THEN GenIter(template_url, g)
    ELSE [kind |-> "stop", url |-> <<>>, page |-> 0, exc |-> "", g |-> g]

\* ------------------------------------------------------------------------
\* File names and directories.  A directory is a function from the names of
\* its files to their contents; a content records what the file shows:
\* kind "raw" | "bw" | "pdf", by "old" (left by an earlier run) | "run",
\* pages: the page numbers it shows, in order.
\* ------------------------------------------------------------------------
EmptyDir == [n \in {} |-> 0]
File(kind, by, pages) == [kind |-> kind, by |-> by, pages |-> pages]
Write(dir, name, content) == (name :> content) @@ dir
Remove(dir, names) == [n \in (DOMAIN dir) \ names |-> dir[n]]

EndsWith(s, suffix) == StartsWithAt(s, Len(s) - Len(suffix) + 1, suffix)

DotPng == <<".", "p", "n", "g">>
DotJpg == <<".", "j", "p", "g">>
DotJpeg == <<".", "j", "p", "e", "g">>
DotPdf == <<".", "p", "d", "f">>

\* Path.glob("*" + suffix)
Glob(dir, suffix) == {n \in DOMAIN dir : EndsWith(n, suffix)}

\* Path.stem: the name without its last suffix
Stem(name) ==
    LET dots == {k \in 2..Len(name) : name[k] = "."}
    IN  IF dots = {} THEN name ELSE SubSeq(name, 1, Max(dots) - 1)

CharOrder == <<".", "/", "0", "1", "2", "3", "4", "5", "6", "7", "8", "9",
               "_", "a", "b", "c", "d", "e", "f", "g", "i", "j", "l", "m",
               "n", "o", "p", "r", "w", "x">>
Ord(c) == CHOOSE k \in 1..Len(CharOrder) : CharOrder[k] = c

\* a < b for str
RECURSIVE LexLess(_, _)
LexLess(a, b) ==
    IF Len(a) = 0 THEN Len(b) > 0
    ELSE IF Len(b) = 0 THEN FALSE
    ELSE IF a[1] = b[1] THEN LexLess(Tail(a), Tail(b))
    ELSE Ord(a[1]) < Ord(b[1])

\* sorted(names)
RECURSIVE Sorted(_)
Sorted(S) ==
    IF S = {} THEN <<>>
    ELSE LET m == CHOOSE x \in S : \A y \in S \ {x} : LexLess(x, y)
         IN  <<m>> \o Sorted(S \ {m})

\* ------------------------------------------------------------------------
\* main(): per-page naming
\* ------------------------------------------------------------------------
ImgPrefix == <<"p", "a", "g", "e">>

\* page_str: the last digit run of the URL, str(printed + 1) without one
PageStr(u, printed) == IF HasDigits(u) THEN LastRun(u) ELSE IntToStr(printed + 1)

\* ('jpg' if args.img_format == 'jpeg' else 'png'), with its dot
ImgExt(img_format) == IF img_format = "jpeg" THEN DotJpg ELSE DotPng

\* img_name
ImgName(u, printed, img_format) ==
    ImgPrefix \o PageStr(u, printed) \o ImgExt(img_format)

\* A mutant of ShouldSkip: an existing file is never skipped.
ShouldSkip_never(skip_existing, dir, name) == FALSE

\* args.skip_existing and img_path.exists()
ShouldSkip(skip_existing, dir, name) == skip_existing /\ name \in DOMAIN dir

\* ------------------------------------------------------------------------
\* generate_image_playwright, by the outcome of the browser's work: what it
\* returns ("True", "False", or "raise" for an exception that leaves it)
\* and whether the screenshot was written.
\* ------------------------------------------------------------------------
CaptureOutcomes == {"ok", "nav_timeout", "eval_error", "screenshot_error"}

\* A mutant of generate_image_playwright: no try/except around the browser.
generate_image_playwright_unguarded(outcome) ==
    [ret |-> IF outcome = "ok" THEN "True" ELSE "raise", wrote |-> outcome = "ok"]

generate_image_playwright(outcome) ==
    [ret |-> IF outcome = "ok" THEN "True" ELSE "False", wrote |-> outcome = "ok"]

\* ------------------------------------------------------------------------
\* apply_white_black_effect, by the presence of Pillow and the outcome of
\* the image work
\* ------------------------------------------------------------------------
apply_white_black_effect(pillow, outcome) ==
    IF ~pillow THEN [ret |-> FALSE, wrote |-> FALSE]
    ELSE [ret |-> outcome = "ok", wrote |-> outcome = "ok"]

\* ------------------------------------------------------------------------
\* convert_images_to_pdf.  failAt = 0: every img2pdf.convert call returns;
\* failAt = k > 0: the k-th one raises (merged mode makes one call).
\* open(path, "wb") creates the file before convert runs.
\* ------------------------------------------------------------------------
RECURSIVE PagesOf(_, _)
PagesOf(dir, names) ==
    IF Len(names) = 0 THEN <<>>
    ELSE dir[names[1]].pages \o PagesOf(dir, Tail(names))

\* A mutant of PerPagePdfs: a failure takes the PDFs written before it away.
RECURSIVE PerPagePdfs_rollback(_, _, _, _, _)
PerPagePdfs_rollback(image_dir, pdf_dir, images, k, failAt) ==
    IF k > Len(images) THEN pdf_dir
    ELSE IF k = failAt
    THEN Remove(pdf_dir, {Stem(images[j]) \o DotPdf : j \in 1..k})
    ELSE PerPagePdfs_rollback(image_dir,
                              Write(pdf_dir, Stem(images[k]) \o DotPdf,
                                    File("pdf", "run", image_dir[images[k]].pages)),
                              images, k + 1, failAt)

\* the loop of lines 195-199 from its k-th image on
RECURSIVE PerPagePdfs(_, _, _, _, _)
PerPagePdfs(image_dir, pdf_dir, images, k, failAt) ==
    IF k > Len(images) THEN pdf_dir
    ELSE IF k = failAt
    THEN Write(pdf_dir, Stem(images[k]) \o DotPdf, File("pdf", "run", <<>>))
    ELSE PerPagePdfs(image_dir,
                     Write(pdf_dir, Stem(images[k]) \o DotPdf,
                           File("pdf", "run", image_dir[images[k]].pages)),
                     images, k + 1, failAt)

\* A mutant of convert_images_to_pdf: no test for the library.
convert_images_to_pdf_nolibcheck(image_dir, pdf_dir, merge_all, output_name, img2pdf, failAt) ==
    LET images == Sorted(Glob(image_dir, DotPng))
    IN  IF Len(images) = 0 THEN [ret |-> FALSE, pdf |-> pdf_dir]
        ELSE IF merge_all
        THEN [ret |-> TRUE,
              pdf |-> Write(pdf_dir, output_name,
                            File("pdf", "run", PagesOf(image_dir, images)))]
        ELSE [ret |-> TRUE, pdf |-> PerPagePdfs(image_dir, pdf_dir, images, 1, 0)]

\* A mutant of convert_images_to_pdf: no test for an empty image list.
convert_images_to_pdf_noemptycheck(image_dir, pdf_dir, merge_all, output_name, img2pdf, failAt) ==
    LET images == Sorted(Glob(image_dir, DotPng))
    IN  IF ~img2pdf THEN [ret |-> FALSE, pdf |-> pdf_dir]
        ELSE IF merge_all
        THEN [ret |-> TRUE,
              pdf |-> Write(pdf_dir, output_name,
                            File("pdf", "run", PagesOf(image_dir, images)))]
        ELSE [ret |-> TRUE, pdf |-> PerPagePdfs(image_dir, pdf_dir, images, 1, 0)]

\* A mutant of convert_images_to_pdf: the merged PDF takes the images in
\* the directory's order, here the reverse of the sorted one.
RECURSIVE Reversed(_)
Reversed(q) == IF Len(q) = 0 THEN <<>> ELSE Reversed(Tail(q)) \o <<Head(q)>>
convert_images_to_pdf_unsorted(image_dir, pdf_dir, merge_all, output_name, img2pdf, failAt) ==
    LET images == Reversed(Sorted(Glob(image_dir, DotPng)))
    IN  IF ~img2pdf THEN [ret |-> FALSE, pdf |-> pdf_dir]
        ELSE IF Len(images) = 0 THEN [ret |-> FALSE, pdf |-> pdf_dir]
        ELSE IF merge_all
        THEN IF failAt = 0
             THEN [ret |-> TRUE,
                   pdf |-> Write(pdf_dir, output_name,
                                 File("pdf", "run", PagesOf(image_dir, images)))]
             ELSE [ret |-> FALSE,
                   pdf |-> Write(pdf_dir, output_name, File("pdf", "run", <<>>))]
        ELSE [ret |-> failAt = 0,
              pdf |-> PerPagePdfs(image_dir, pdf_dir, images, 1, failAt)]

convert_images_to_pdf(image_dir, pdf_dir, merge_all, output_name, img2pdf, failAt) ==
    LET images == Sorted(Glob(image_dir, DotPng))
    IN  IF ~img2pdf THEN [ret |-> FALSE, pdf |-> pdf_dir]
        ELSE IF Len(images) = 0 THEN [ret |-> FALSE, pdf |-> pdf_dir]
        ELSE IF merge_all
        THEN IF failAt = 0
             THEN [ret |-> TRUE,
                   pdf |-> Write(pdf_dir, output_name,
                                 File("pdf", "run", PagesOf(image_dir, images)))]
             ELSE [ret |-> FALSE,
                   pdf |-> Write(pdf_dir, output_name, File("pdf", "run", <<>>))]
        ELSE [ret |-> failAt = 0,
              pdf |-> PerPagePdfs(image_dir, pdf_dir, images, 1, failAt)]

\* clear_output_directories, for one directory, when every unlink succeeds
clear_output_directories(dir) == Remove(dir, Glob(dir, DotPng) \cup Glob(dir, DotPdf))

\* ------------------------------------------------------------------------
\* State
\* ------------------------------------------------------------------------
VARIABLES
    args,        \* the parsed command line
    env,         \* the environment switches and optional libraries the run has read
    pc,          \* where main() (or the generator's caller) is
    call,        \* the arguments of generate_urls
    gen,         \* the generator's frame
    yielded,     \* what the generator has yielded: <<[url, page]>>
    printed,     \* main's counter
    raw,         \* the raw image directory (args.out_dir)
    processed,   \* the processed image directory
    pdf,         \* the PDF directory
    fs0,         \* the three directories as the run found them
    cap,         \* the frame of generate_image_playwright
    live,        \* how many browsers are live
    handled,     \* one entry per URL main's loop has handled
    queue,       \* raw_images still to transform
    transforms,  \* one entry per apply_white_black_effect call
    pdfCalls,    \* one entry per convert_images_to_pdf call
    exitCode,    \* the process's exit status, -1 while it runs
    failure      \* why the run ended early, "" when it did not

vars == <<args, env, pc, call, gen, yielded, printed, raw, processed, pdf, fs0,
          cap, live,
          handled, queue, transforms, pdfCalls, exitCode, failure>>

\* ------------------------------------------------------------------------
\* Inputs
\* ------------------------------------------------------------------------
TplDigits      == <<"p", "0", "1", ".", "x">>                                 \* p01.x
TplTwoRuns     == <<"1", "a", "0", "7">>                                      \* 1a07
TplPlain       == <<"a", "b">>                                                \* ab
TplPage        == <<"a", "{", "p", "a", "g", "e", "}">>                      \* a{page}
TplPage02      == <<"a", "{", "p", "a", "g", "e", ":", "0", "2", "d", "}", "b">>  \* a{page:02d}b
TplPage2       == <<"a", "{", "p", "a", "g", "e", ":", "2", "d", "}">>       \* a{page:2d}
TplBraces      == <<"{", "x", "}", "{", "p", "a", "g", "e", ":", "0", "2", "d", "}">>  \* {x}{page:02d}
TplBracesPlain == <<"{", "x", "}", "{", "p", "a", "g", "e", "}">>            \* {x}{page}
TplTrailing    == <<"a", "{", "p", "a", "g", "e", "}", "/", "2">>            \* a{page}/2
TplZeroWidth   == <<"a", "{", "p", "a", "g", "e", ":", "0", "d", "}">>       \* a{page:0d}

GenTemplates == {TplDigits, TplTwoRuns, TplPlain, TplPage, TplPage02, TplPage2,
                 TplBraces, TplBracesPlain, TplTrailing, TplZeroWidth}
GenStarts == ((0 - 1)..MaxStart) \cup {9, 99}
GenEnds == {None, Some(1), Some(10)}
GenCounts == {None} \cup {Some(c) : c \in (0 - 1)..MaxCount}

\* no URL (None or ""), and the templates main is run on
NoUrl == <<>>
MainUrls == {NoUrl, TplDigits, TplPlain, TplTrailing, TplBraces}

ArgsDefault ==
    [url |-> NoUrl, start |-> None, end |-> None, count |-> None, limit |-> None,
     print_only |-> FALSE, skip_existing |-> FALSE,
     img_format |-> "png", out_dir |-> "env_out_dir_raw"]

\* the switches of lines 366-370 and the optional libraries of lines 33-48,
\* at their defaults; drawn |-> how many of them the run has read so far
EnvDefault ==
    [drawn |-> 0, clear_output_at_start |-> FALSE, enable_white_black |-> FALSE,
     enable_pdf |-> FALSE, enable_color_pdf |-> FALSE, enable_one_pdf |-> FALSE,
     pillow |-> TRUE, img2pdf |-> TRUE]

\* what an earlier run of the same configuration left behind: the raw images
\* of the pages in S, and their processed images when it ran the black-white stage
OldName(n, img_format) == ImgPrefix \o zfill(IntToStr(n), 2) \o ImgExt(img_format)
OldDir(S, img_format, kind) ==
    [name \in {OldName(n, img_format) : n \in S} |->
        File(kind, "old", <<CHOOSE n \in S : OldName(n, img_format) = name>>)]

\* ------------------------------------------------------------------------
\* Initial states
\* ------------------------------------------------------------------------
CapIdle == [pc |-> "idle", calls |-> 0, full_page |-> FALSE, page_selector |-> None,
            inject_css |-> TRUE, dom |-> <<>>, queried |-> FALSE, selector |-> <<>>,
            clip_padding |-> 0, bg |-> "", el |-> TRUE, boxq |-> "", clip |-> FALSE,
            box |-> None, clip_arg |-> None, exc |-> "", shot |-> "", ret |-> ""]

Idle ==
    /\ env = EnvDefault
    /\ cap = CapIdle
    /\ live = 0
    /\ yielded = <<>>
    /\ printed = 0
    /\ handled = <<>>
    /\ queue = <<>>
    /\ transforms = <<>>
    /\ pdfCalls = <<>>
    /\ exitCode = 0 - 1
    /\ failure = ""
    /\ gen = GenFresh

\* main() is entered
Init ==
    /\ Idle
    /\ pc = "start"
    /\ args \in [url : MainUrls,
                 start : {None, Some(2)},
                 end : {None, Some(2)},
                 count : {None, Some(MaxCount)},
                 limit : {None, Some(1)},
                 print_only : BOOLEAN,
                 skip_existing : BOOLEAN,
                 img_format : {"png", "jpeg"},
                 out_dir : {"env_out_dir_raw", "elsewhere"}]
    \* --end wins over --count: the runs with both are runs with --end
    /\ args.end # None => args.count = None
    \* a print-only run reads neither --skip-existing nor --img-format
    /\ args.print_only => (~args.skip_existing /\ args.img_format = "png")
    \* --out-dir is read by a run that exports (lines 468, 523), and names a
    \* directory other than OUTPUT_DIR_RAW only where it is told apart from
    \* it: by the files an earlier run left there
    /\ args.print_only => args.out_dir = "env_out_dir_raw"
    /\ call = [template |-> NoUrl, start |-> 0, end |-> None, count |-> None]
    /\ \E S \in SUBSET (1..MaxOld), bw \in BOOLEAN :
          /\ S = {} => (~bw /\ args.out_dir = "env_out_dir_raw")
          /\ raw = OldDir(S, args.img_format, "raw")
          /\ processed = IF bw THEN OldDir(S, args.img_format, "bw") ELSE EmptyDir
    /\ pdf = EmptyDir
    /\ fs0 = [raw |-> raw, processed |-> processed, pdf |-> pdf]

\* generate_urls is called directly
InitGen ==
    /\ Idle
    /\ pc = "gen"
    /\ args = ArgsDefault
    /\ call \in [template : GenTemplates, start : GenStarts,
                 end : GenEnds, count : GenCounts]
    /\ raw = EmptyDir
    /\ processed = EmptyDir
    /\ pdf = EmptyDir
    /\ fs0 = [raw |-> raw, processed |-> processed, pdf |-> pdf]

\* ------------------------------------------------------------------------
\* The generator on its own: one next() per step
\* ------------------------------------------------------------------------
NextUrl == generate_urls(call.template, call.start, call.end, call.count, gen)

GenStep ==
    /\ pc = "gen"
    /\ gen.pc \in {"start", "loop"}
    /\ gen' = NextUrl.g
    /\ yielded' = IF NextUrl.kind = "yield"
                  THEN Append(yielded, [url |-> NextUrl.url, page |-> NextUrl.page])
                  ELSE yielded
    /\ UNCHANGED <<args, fs0, cap, live, env, pc, call, printed, raw, processed, pdf,
                   handled, queue, transforms, pdfCalls, exitCode, failure>>

NextGen == GenStep

SpecGen == InitGen /\ [][NextGen]_vars

\* ------------------------------------------------------------------------
\* main()
\* ------------------------------------------------------------------------
\* ------------------------------------------------------------------------
\* generate_image_playwright step by step (lines 241-353), called up to
\* MaxCalls times in a row as main's loop calls it.  cap.exc is the exception
\* on its way to the handler of line 351, "" when there is none.
\* ------------------------------------------------------------------------
InitCapture ==
    /\ Idle
    /\ pc = "cap"
    /\ args = ArgsDefault
    /\ call = [template |-> NoUrl, start |-> 0, end |-> None, count |-> None]
    /\ raw = EmptyDir
    /\ processed = EmptyDir
    /\ pdf = EmptyDir
    /\ fs0 = [raw |-> raw, processed |-> processed, pdf |-> pdf]

\* what no step of the function touches
CapFrame == UNCHANGED <<args, fs0, env, pc, call, gen, yielded, printed, raw, processed,
                        pdf, handled, queue, transforms, pdfCalls, exitCode, failure>>

CapGoes(to) == cap' = [cap EXCEPT !.pc = to]
CapRaises(e) == cap' = [cap EXCEPT !.pc = "withexit", !.exc = e]

\* A mutant of WithExit: leaving the with block releases nothing.
WithExit_leak(n) == n

\* line 245, leaving the with block: sync_playwright's context manager
\* stops Playwright, and every browser launched through it ends with it
WithExit(n) == 0

\* '#PageContainer' and the ids of a page's elements, in document order
PageContainer == <<"P", "a", "g", "e", "C", "o", "n", "t", "a", "i", "n", "e", "r">>
Hash == <<"#">>
ContainerId(n) == PageContainer \o NatToStr(n)
OtherId == <<"m", "a", "i", "n">>
Doms == {<<>>, <<OtherId>>, <<OtherId, ContainerId(39)>>,
         <<ContainerId(7), OtherId>>, <<ContainerId(40), ContainerId(39)>>}

\* lines 481-491: the selector main passes, from the URL's last digit run
PageSelector(u, nprinted) ==
    Hash \o PageContainer
         \o (IF HasDigits(u) THEN NatToStr(StrToNat(LastRun(u)))
             ELSE IntToStr(nprinted + 1))

\* the page_selector arguments: none, the empty string, main's for page 7
PageSelectors == {None, Some(<<>>), Some(PageSelector(<<"p", "0", "7">>, 0))}

\* if page_selector: a str that is not empty
Truthy(o) == o # None /\ Val(o) # <<>>

\* A mutant of DetectSelector: the last matching element, not the first.
RECURSIVE DetectSelector_last(_)
DetectSelector_last(dom) ==
    IF Len(dom) = 0 THEN None
    ELSE IF StartsWithAt(dom[Len(dom)], 1, PageContainer)
    THEN Some(Hash \o dom[Len(dom)])
    ELSE DetectSelector_last(SubSeq(dom, 1, Len(dom) - 1))

\* lines 261-269: document.querySelector('[id^="PageContainer"]'), the
\* first such element in document order, as '#' + id, or null
RECURSIVE DetectSelector(_)
DetectSelector(dom) ==
    IF Len(dom) = 0 THEN None
    ELSE IF StartsWithAt(Head(dom), 1, PageContainer) THEN Some(Hash \o Head(dom))
    ELSE DetectSelector(Tail(dom))

\* line 270: detected_selector or '#PageContainer3'
FallbackSelector == Hash \o ContainerId(3)

\* --clip-padding, and the boxes bounding_box() returns: floats, held in
\* tenths of a pixel
Paddings == {0, MaxPadding}
Boxes == {[x |-> 15, y |-> 0, width |-> 1004, height |-> 27],
          [x |-> 0 - 15, y |-> 0 - 20, width |-> 99, height |-> 10]}

\* int(v) of a float: towards zero
IntOf(t) == IF t >= 0 THEN t \div 10 ELSE 0 - ((0 - t) \div 10)

\* line 325: the clip, from the box
ClipOfBox(box) == [x |-> IntOf(box.x), y |-> IntOf(box.y),
                   width |-> IntOf(box.width), height |-> IntOf(box.height)]

\* A mutant of ScreenshotClip: the padding is added once to the size.
ScreenshotClip_halfpad(full_page, clip, clip_padding) ==
    IF ~full_page /\ clip # None
    THEN Some([x |-> Val(clip).x - clip_padding, y |-> Val(clip).y - clip_padding,
               width |-> Val(clip).width + clip_padding,
               height |-> Val(clip).height + clip_padding])
    ELSE None

\* lines 339-346: screenshot_args["clip"], None when the key is not set
ScreenshotClip(full_page, clip, clip_padding) ==
    IF ~full_page /\ clip # None
    THEN Some([x |-> Val(clip).x - clip_padding, y |-> Val(clip).y - clip_padding,
               width |-> Val(clip).width + (clip_padding * 2),
               height |-> Val(clip).height + (clip_padding * 2)])
    ELSE None

\* lines 230-239: the function is called
CapCall ==
    /\ pc = "cap"
    /\ CapFrame
    /\ cap.pc \in {"idle", "returned"}
    /\ cap.calls < MaxCalls
    /\ \E fp, css \in BOOLEAN, sel \in PageSelectors, pad \in Paddings :
          cap' = [CapIdle EXCEPT !.pc = "launch", !.calls = cap.calls + 1,
                                 !.full_page = fp, !.page_selector = sel,
                                 !.inject_css = css, !.clip_padding = pad]
    /\ live' = live

\* lines 245-249: Playwright starts, the browser is launched, a page opened
CapLaunch ==
    /\ pc = "cap"
    /\ CapFrame
    /\ cap.pc = "launch"
    /\ \/ CapGoes("goto") /\ live' = live + 1
       \/ CapRaises("launch_error") /\ live' = live

\* lines 251-254: navigation; the page that loads has its elements
CapGoto ==
    /\ pc = "cap"
    /\ CapFrame
    /\ cap.pc = "goto"
    /\ \/ \E dom \in Doms : cap' = [cap EXCEPT !.pc = "detect", !.dom = dom]
       \/ CapRaises("nav_timeout")
    /\ live' = live

\* lines 257-270: the selector is the caller's, or detected by a script
CapDetect ==
    /\ pc = "cap"
    /\ CapFrame
    /\ cap.pc = "detect"
    /\ IF Truthy(cap.page_selector)
       THEN cap' = [cap EXCEPT !.pc = "bginfo", !.selector = Val(cap.page_selector)]
       ELSE \/ cap' = [cap EXCEPT !.pc = "bginfo", !.queried = TRUE,
                                  !.selector = IF DetectSelector(cap.dom) = None
                                               THEN FallbackSelector
                                               ELSE Val(DetectSelector(cap.dom))]
            \/ CapRaises("eval_error")
    /\ live' = live

\* lines 272-288: bg_info of the selector's element, of document.body when
\* the selector matches nothing
CapBgInfo ==
    /\ pc = "cap"
    /\ CapFrame
    /\ cap.pc = "bginfo"
    /\ \/ \E bg \in {"image", "none", "null"} :
             LET el == \E i \in 1..Len(cap.dom) : Hash \o cap.dom[i] = cap.selector
             IN  /\ bg = "null" => ~el
                 /\ cap' = [cap EXCEPT !.pc = "inject", !.bg = bg, !.el = el]
       \/ CapRaises("eval_error")
    /\ live' = live

\* lines 291-299: the fallback CSS
CapInject ==
    /\ pc = "cap"
    /\ CapFrame
    /\ cap.pc = "inject"
    /\ IF cap.inject_css THEN CapGoes("clip") \/ CapRaises("style_error")
       ELSE CapGoes("clip")
    /\ live' = live

\* what page.locator(selector).bounding_box() can do: a box, None (the
\* element is not visible), or an exception (no element: it times out)
BoxQueries(el) == IF el THEN {"box", "none", "raise"} ELSE {"none", "raise"}

\* lines 302-327: with a background image the style is forced (line 318)
\* and the bounding box queried; an exception of the query is caught
CapClip ==
    /\ pc = "cap"
    /\ CapFrame
    /\ cap.pc = "clip"
    /\ IF cap.bg = "image"
       THEN \/ \E q \in BoxQueries(cap.el) :
                  \E box \in IF q = "box" THEN {Some(b) : b \in Boxes} ELSE {None} :
                      cap' = [cap EXCEPT !.pc = "screenshot", !.boxq = q,
                                         !.clip = (q = "box"), !.box = box]
            \/ cap.inject_css /\ CapRaises("style_error")
       ELSE CapGoes("screenshot")
    /\ live' = live

\* what the screenshot shows: the whole page, the clip, or the viewport
ShotKind(full_page, clip) ==
    IF full_page THEN "full" ELSE IF clip THEN "clip" ELSE "viewport"

\* lines 330-348: the screenshot is taken and written
CapScreenshot ==
    /\ pc = "cap"
    /\ CapFrame
    /\ cap.pc = "screenshot"
    /\ \/ cap' = [cap EXCEPT !.pc = "close",
                             !.shot = ShotKind(cap.full_page, cap.clip),
                             !.clip_arg = ScreenshotClip(
                                 cap.full_page,
                                 IF cap.box = None THEN None
                                 ELSE Some(ClipOfBox(Val(cap.box))),
                                 cap.clip_padding)]
       \/ CapRaises("screenshot_error")
    /\ live' = live

\* line 349: browser.close()
CapClose ==
    /\ pc = "cap"
    /\ CapFrame
    /\ cap.pc = "close"
    /\ CapGoes("withexit")
    /\ live' = live - 1

\* line 245: the with block is left, by its end or by an exception
CapWithExit ==
    /\ pc = "cap"
    /\ CapFrame
    /\ cap.pc = "withexit"
    /\ CapGoes("return")
    /\ live' = WithExit(live)

\* lines 350-353: return True, or the handler's return False
CapReturn ==
    /\ pc = "cap"
    /\ CapFrame
    /\ cap.pc = "return"
    /\ cap' = [cap EXCEPT !.pc = "returned",
                          !.ret = generate_image_playwright(
                                      IF cap.exc = "" THEN "ok" ELSE cap.exc).ret]
    /\ live' = live

NextCapture ==
    \/ CapCall
    \/ CapLaunch
    \/ CapGoto
    \/ CapDetect
    \/ CapBgInfo
    \/ CapInject
    \/ CapClip
    \/ CapScreenshot
    \/ CapClose
    \/ CapWithExit
    \/ CapReturn

SpecCapture == InitCapture /\ [][NextCapture]_vars

Exit(code, why) == pc' = "done" /\ exitCode' = code /\ failure' = why
Continue == exitCode' = exitCode /\ failure' = failure

\* lines 380-387: CLEAR_OUTPUT_AT_START is read and acted on.  raw is the
\* directory the run writes its images to, args.out_dir (line 468); the
\* directory cleared is OUTPUT_DIR_RAW
ClearStep ==
    /\ pc = "start"
    /\ \E c \in BOOLEAN :
          /\ env' = [env EXCEPT !.drawn = 1, !.clear_output_at_start = c]
          /\ raw' = IF c /\ args.out_dir = "env_out_dir_raw"
                    THEN clear_output_directories(raw) ELSE raw
          /\ processed' = IF c THEN clear_output_directories(processed) ELSE processed
          /\ pdf' = IF c THEN clear_output_directories(pdf) ELSE pdf
    /\ pc' = "args"
    /\ UNCHANGED <<args, fs0, cap, live, call, gen, yielded, printed, handled, queue,
                   transforms, pdfCalls, exitCode, failure>>

\* start as main deduces it (lines 438-445)
DeduceStart(a) ==
    IF a.start # None THEN Val(a.start)
    ELSE IF HasDigits(a.url) THEN StrToNat(LastRun(a.url))
    ELSE 1

\* end as main passes it (lines 447-451)
DeduceEnd(a) ==
    IF a.end = None /\ a.count = None /\ a.limit = None
    THEN Some(DeduceStart(a) + 9)
    ELSE a.end

\* lines 424-455: the arguments are parsed; without a URL p.error() exits
\* the process with status 2, otherwise the generator is created
ParseArgs ==
    /\ pc = "args"
    /\ IF args.url = NoUrl
       THEN /\ Exit(2, "no_url")
            /\ call' = call
       ELSE /\ pc' = "export"
            /\ call' = [template |-> args.url, start |-> DeduceStart(args),
                        end |-> DeduceEnd(args), count |-> args.count]
            /\ Continue
    /\ UNCHANGED <<args, fs0, cap, live, env, gen, yielded, printed, raw, processed, pdf,
                   handled, queue, transforms, pdfCalls>>

\* lines 459-469: unless print-only, playwright is imported (an ImportError
\* returns 3) and the output directory is created
PrepareExport ==
    /\ pc = "export"
    /\ IF args.print_only
       THEN pc' = "loop" /\ Continue
       ELSE \E playwright \in BOOLEAN :
               IF playwright THEN pc' = "loop" /\ Continue
               ELSE Exit(3, "no_browser")
    /\ UNCHANGED <<args, fs0, cap, live, env, call, gen, yielded, printed, raw, processed, pdf,
                   handled, queue, transforms, pdfCalls>>

\* failures the environment has injected so far
FailCount ==
    Cardinality({k \in 1..Len(handled) :
                    handled[k].act = "capture" /\ handled[k].outcome # "ok"})
    + Cardinality({k \in 1..Len(transforms) : transforms[k].outcome # "ok"})
    + Cardinality({k \in 1..Len(pdfCalls) : pdfCalls[k].failAt # 0})

\* the k-th call of a stage may fail
MayFail(k) == FailCount < MaxFail /\ k <= MaxFailPos

\* lines 514-516: printed += 1, and the break on --limit
AfterBody ==
    /\ printed' = printed + 1
    /\ pc' = IF args.limit # None /\ Val(args.limit) # 0
                /\ printed + 1 >= Val(args.limit)
             THEN "post" ELSE "loop"

Yielded(r) == Append(yielded, [url |-> r.url, page |-> r.page])
Handled(r, img, act, outcome) ==
    Append(handled, [page |-> r.page, url |-> r.url, img |-> img,
                     act |-> act, outcome |-> outcome])

\* line 470: next(gen) raises; nothing in main catches it, the interpreter
\* prints the traceback and exits with status 1
LoopRaise ==
    /\ pc = "loop"
    /\ NextUrl.kind = "raise"
    /\ gen' = NextUrl.g
    /\ Exit(1, NextUrl.exc)
    /\ UNCHANGED <<args, fs0, cap, live, env, call, yielded, printed, raw, processed, pdf,
                   handled, queue, transforms, pdfCalls>>

\* line 470: the generator is exhausted
LoopExhausted ==
    /\ pc = "loop"
    /\ NextUrl.kind = "stop"
    /\ gen' = NextUrl.g
    /\ pc' = "post"
    /\ UNCHANGED <<args, fs0, cap, live, env, call, yielded, printed, raw, processed, pdf,
                   handled, queue, transforms, pdfCalls, exitCode, failure>>

\* lines 471-476: --check-head is given and the requests library is absent
\* (args.check_head is read nowhere else; requests is bound when the module
\* is loaded, so it is the first head_check call that raises)
LoopHeadCheckFails ==
    /\ pc = "loop"
    /\ NextUrl.kind = "yield"
    /\ printed = 0
    /\ gen' = NextUrl.g
    /\ yielded' = Yielded(NextUrl)
    /\ Exit(2, "head_check")
    /\ UNCHANGED <<args, fs0, cap, live, env, call, printed, raw, processed, pdf,
                   handled, queue, transforms, pdfCalls>>

\* lines 470-516 with --print-only
LoopPrint ==
    /\ pc = "loop"
    /\ NextUrl.kind = "yield"
    /\ args.print_only
    /\ gen' = NextUrl.g
    /\ yielded' = Yielded(NextUrl)
    /\ handled' = Handled(NextUrl, <<>>, "print", "")
    /\ AfterBody
    /\ UNCHANGED <<args, fs0, cap, live, env, call, raw, processed, pdf,
                   queue, transforms, pdfCalls, exitCode, failure>>

\* lines 470-516, the image exists and --skip-existing is given
LoopSkip ==
    /\ pc = "loop"
    /\ NextUrl.kind = "yield"
    /\ ~args.print_only
    /\ ShouldSkip(args.skip_existing, raw,
                  ImgName(NextUrl.url, printed, args.img_format))
    /\ gen' = NextUrl.g
    /\ yielded' = Yielded(NextUrl)
    /\ handled' = Handled(NextUrl, ImgName(NextUrl.url, printed, args.img_format),
                          "skip", "")
    /\ AfterBody
    /\ UNCHANGED <<args, fs0, cap, live, env, call, raw, processed, pdf,
                   queue, transforms, pdfCalls, exitCode, failure>>

\* lines 470-516, the page is captured
LoopCapture ==
    /\ pc = "loop"
    /\ NextUrl.kind = "yield"
    /\ ~args.print_only
    /\ ~ShouldSkip(args.skip_existing, raw,
                   ImgName(NextUrl.url, printed, args.img_format))
    /\ \E outcome \in CaptureOutcomes :
          LET img == ImgName(NextUrl.url, printed, args.img_format)
              res == generate_image_playwright(outcome)
          IN  /\ outcome # "ok" => MayFail(printed + 1)
              /\ gen' = NextUrl.g
              /\ yielded' = Yielded(NextUrl)
              /\ handled' = Handled(NextUrl, img, "capture", outcome)
              /\ raw' = IF res.wrote
                        THEN Write(raw, img, File("raw", "run", <<NextUrl.page>>))
                        ELSE raw
              /\ IF res.ret = "raise"
                 THEN Exit(1, "capture") /\ printed' = printed
                 ELSE AfterBody /\ Continue
    /\ UNCHANGED <<args, fs0, cap, live, env, call, processed, pdf, queue, transforms, pdfCalls>>

\* PDF_NAME's default with the suffixes of lines 543, 554 and 564
CombinedColorPdf == <<"c", "o", "m", "b", "i", "n", "e", "d", "_",
                      "c", "o", "l", "o", "r", ".", "p", "d", "f">>
CombinedBwPdf == <<"c", "o", "m", "b", "i", "n", "e", "d", "_",
                   "b", "w", ".", "p", "d", "f">>
CombinedPdf == <<"c", "o", "m", "b", "i", "n", "e", "d", ".", "p", "d", "f">>

\* f"*.{args.img_format}" (line 531)
RawGlobSuffix(img_format) == IF img_format = "jpeg" THEN DotJpeg ELSE DotPng

\* The switches of lines 367-370 and the optional libraries do not change
\* during a run and act only after the loop: the model draws them where the
\* run first reads them.  One the run does not read stays at its default.
TransformEnvs ==
    {e \in [drawn : {2}, clear_output_at_start : {env.clear_output_at_start},
            enable_white_black : BOOLEAN, enable_pdf : {FALSE},
            enable_color_pdf : {FALSE}, enable_one_pdf : {FALSE},
            pillow : BOOLEAN, img2pdf : {TRUE}] :
        ~e.enable_white_black => e.pillow}

PdfEnvs ==
    {e \in [drawn : {3}, clear_output_at_start : {env.clear_output_at_start},
            enable_white_black : {env.enable_white_black}, enable_pdf : BOOLEAN,
            enable_color_pdf : BOOLEAN, enable_one_pdf : BOOLEAN,
            pillow : {env.pillow}, img2pdf : BOOLEAN] :
        (~e.enable_pdf /\ ~e.enable_color_pdf) => (e.img2pdf /\ ~e.enable_one_pdf)}

\* lines 518-531: the loop is over; print-only returns 0 (line 572), otherwise
\* the black-white stage lists the raw images it will transform
PostBegin ==
    /\ pc = "post"
    /\ IF args.print_only
       THEN /\ Exit(0, "")
            /\ UNCHANGED <<env, queue>>
       ELSE /\ \E e \in TransformEnvs :
                  /\ env' = e
                  /\ queue' = IF e.enable_white_black
                              THEN Sorted(Glob(raw, RawGlobSuffix(args.img_format)))
                              ELSE <<>>
            /\ pc' = "transform"
            /\ Continue
    /\ UNCHANGED <<args, fs0, cap, live, call, gen, yielded, printed, raw, processed, pdf,
                   handled, transforms, pdfCalls>>

\* A mutant of TransformOne: a failed transform ends the stage.
TransformOne_stops ==
    /\ pc = "transform"
    /\ queue # <<>>
    /\ \E outcome \in {"ok", "error"} :
          LET name == Head(queue)
              res == apply_white_black_effect(env.pillow, outcome)
          IN  /\ outcome # "ok" => (MayFail(Len(transforms) + 1) /\ env.pillow)
              /\ processed' = IF res.wrote
                              THEN Write(processed, name,
                                         File("bw", "run", raw[name].pages))
                              ELSE processed
              /\ transforms' = Append(transforms,
                                      [name |-> name, ok |-> res.ret, outcome |-> outcome])
    /\ queue' = IF transforms'[Len(transforms')].ok THEN Tail(queue) ELSE <<>>
    /\ UNCHANGED <<args, fs0, cap, live, env, pc, call, gen, yielded, printed, raw, pdf,
                   handled, pdfCalls, exitCode, failure>>

\* lines 532-535: one raw image is transformed
TransformOne ==
    /\ pc = "transform"
    /\ queue # <<>>
    /\ \E outcome \in {"ok", "error"} :
          LET name == Head(queue)
              res == apply_white_black_effect(env.pillow, outcome)
          IN  /\ outcome # "ok" => (MayFail(Len(transforms) + 1) /\ env.pillow)
              /\ processed' = IF res.wrote
                              THEN Write(processed, name,
                                         File("bw", "run", raw[name].pages))
                              ELSE processed
              /\ transforms' = Append(transforms,
                                      [name |-> name, ok |-> res.ret, outcome |-> outcome])
    /\ queue' = Tail(queue)
    /\ UNCHANGED <<args, fs0, cap, live, env, pc, call, gen, yielded, printed, raw, pdf,
                   handled, pdfCalls, exitCode, failure>>

\* which img2pdf.convert call may raise in a call on image_dir
FailAts(image_dir, merge_all, img2pdf) ==
    {0} \cup {k \in 1..(IF merge_all /\ Glob(image_dir, DotPng) # {}
                        THEN 1 ELSE Cardinality(Glob(image_dir, DotPng))) :
                img2pdf /\ MayFail(k)}

\* the paths of pdf_dir a call opens for writing (lines 188 and 196): what
\* the call leaves in an empty pdf_dir
PdfPathsWritten(image_dir, merge_all, output_name, img2pdf, failAt) ==
    DOMAIN convert_images_to_pdf(image_dir, EmptyDir, merge_all, output_name,
                                 img2pdf, failAt).pdf

PdfCall(e, variant, image_dir, output_name, failAt) ==
    LET res == convert_images_to_pdf(image_dir, pdf, e.enable_one_pdf,
                                     output_name, e.img2pdf, failAt)
    IN  /\ pdf' = res.pdf
        /\ pdfCalls' = Append(pdfCalls,
                              [variant |-> variant, merge |-> e.enable_one_pdf,
                               name |-> output_name, ret |-> res.ret,
                               failAt |-> failAt,
                               wrote |-> PdfPathsWritten(image_dir, e.enable_one_pdf,
                                                         output_name, e.img2pdf, failAt)])

\* A mutant of ColorPdfStep: it does not wait for the transforms to end.
ColorPdfStep_early ==
    /\ pc = "transform"
    /\ \E e \in PdfEnvs :
          /\ env' = e
          /\ IF e.enable_color_pdf
             THEN \E failAt \in FailAts(raw, e.enable_one_pdf, e.img2pdf) :
                     PdfCall(e, "color", raw, CombinedColorPdf, failAt)
             ELSE UNCHANGED <<pdf, pdfCalls>>
    /\ pc' = "pdf"
    /\ UNCHANGED <<args, fs0, cap, live, call, gen, yielded, printed, raw, processed,
                   handled, queue, transforms, exitCode, failure>>

\* lines 540-549: the color PDF, from the raw images
ColorPdfStep ==
    /\ pc = "transform"
    /\ queue = <<>>
    /\ \E e \in PdfEnvs :
          /\ env' = e
          /\ IF e.enable_color_pdf
             THEN \E failAt \in FailAts(raw, e.enable_one_pdf, e.img2pdf) :
                     PdfCall(e, "color", raw, CombinedColorPdf, failAt)
             ELSE UNCHANGED <<pdf, pdfCalls>>
    /\ pc' = "pdf"
    /\ UNCHANGED <<args, fs0, cap, live, call, gen, yielded, printed, raw, processed,
                   handled, queue, transforms, exitCode, failure>>

\* A mutant of SecondPdfStep: after a failed color PDF no other is made.
SecondPdfStep_afterfailure ==
    /\ pc = "pdf"
    /\ IF pdfCalls # <<>> /\ ~pdfCalls[Len(pdfCalls)].ret
       THEN UNCHANGED <<pdf, pdfCalls>>
       ELSE IF env.enable_pdf /\ env.enable_white_black
       THEN \E failAt \in FailAts(processed, env.enable_one_pdf, env.img2pdf) :
               PdfCall(env, "bw", processed, CombinedBwPdf, failAt)
       ELSE IF env.enable_pdf
       THEN \E failAt \in FailAts(raw, env.enable_one_pdf, env.img2pdf) :
               PdfCall(env, "plain", raw, CombinedPdf, failAt)
       ELSE UNCHANGED <<pdf, pdfCalls>>
    /\ Exit(0, "")
    /\ UNCHANGED <<args, fs0, cap, live, env, call, gen, yielded, printed, raw, processed,
                   handled, queue, transforms>>

\* lines 551-572: the black-white PDF from the processed images, or the
\* plain PDF from the raw ones; then main returns 0
SecondPdfStep ==
    /\ pc = "pdf"
    /\ IF env.enable_pdf /\ env.enable_white_black
       THEN \E failAt \in FailAts(processed, env.enable_one_pdf, env.img2pdf) :
               PdfCall(env, "bw", processed, CombinedBwPdf, failAt)
       ELSE IF env.enable_pdf
       THEN \E failAt \in FailAts(raw, env.enable_one_pdf, env.img2pdf) :
               PdfCall(env, "plain", raw, CombinedPdf, failAt)
       ELSE UNCHANGED <<pdf, pdfCalls>>
    /\ Exit(0, "")
    /\ UNCHANGED <<args, fs0, cap, live, env, call, gen, yielded, printed, raw, processed,
                   handled, queue, transforms>>

Next ==
    \/ ClearStep
    \/ ParseArgs
    \/ PrepareExport
    \/ LoopRaise
    \/ LoopExhausted
    \/ LoopHeadCheckFails
    \/ LoopPrint
    \/ LoopSkip
    \/ LoopCapture
    \/ PostBegin
    \/ TransformOne
    \/ ColorPdfStep
    \/ SecondPdfStep

Spec == Init /\ [][Next]_vars

\* ------------------------------------------------------------------------
\* convert_images_to_pdf called directly, once, on a directory of images:
\* raw is image_dir, pdf is pdf_dir, env holds merge_all and the library.
\* ------------------------------------------------------------------------
Img(stem, ext) == ImgPrefix \o stem \o ext
PdfImageFiles ==
    (Img(<<"1">>, DotPng) :> File("raw", "old", <<1>>))
    @@ (Img(<<"9">>, DotPng) :> File("raw", "old", <<9>>))
    @@ (Img(<<"1", "0">>, DotPng) :> File("raw", "old", <<10>>))
    @@ (Img(<<"3">>, DotJpg) :> File("raw", "old", <<3>>))
PdfOldFiles ==
    (Img(<<"9">>, DotPdf) :> File("pdf", "old", <<0>>))
    @@ (CombinedPdf :> File("pdf", "old", <<0>>))
Restrict(dir, names) == [n \in names |-> dir[n]]

InitPdf ==
    /\ Idle
    /\ pc = "pdfcall"
    /\ args = ArgsDefault
    /\ call = [template |-> NoUrl, start |-> 0, end |-> None, count |-> None]
    /\ \E I \in SUBSET (DOMAIN PdfImageFiles) : raw = Restrict(PdfImageFiles, I)
    /\ processed = EmptyDir
    /\ \E O \in SUBSET (DOMAIN PdfOldFiles) : pdf = Restrict(PdfOldFiles, O)
    /\ fs0 = [raw |-> raw, processed |-> processed, pdf |-> pdf]

\* lines 172-204, the whole call
PdfStep ==
    /\ pc = "pdfcall"
    /\ \E merge, lib \in BOOLEAN :
          LET e == [EnvDefault EXCEPT !.enable_pdf = TRUE, !.enable_one_pdf = merge,
                                      !.img2pdf = lib]
          IN  /\ env' = e
              /\ \E failAt \in FailAts(raw, merge, lib) :
                    PdfCall(e, "plain", raw, CombinedPdf, failAt)
    /\ pc' = "pdfdone"
    /\ UNCHANGED <<args, fs0, cap, live, call, gen, yielded, printed, raw, processed,
                   handled, queue, transforms, exitCode, failure>>

NextPdf == PdfStep

SpecPdf == InitPdf /\ [][NextPdf]_vars

\* ------------------------------------------------------------------------
\* Properties of generate_urls (checked under SpecGen)
\* ------------------------------------------------------------------------
GenFinished == pc = "gen" /\ gen.pc \in {"done", "raised"}
PlaceholderMode == Contains(call.template, PagePrefix)
DigitRunMode == ~PlaceholderMode /\ HasDigits(call.template)

RECURSIVE Pow10(_)
Pow10(w) == IF w = 0 THEN 1 ELSE 10 * Pow10(w - 1)

\* C1: for every template with a {page} placeholder or a digit, every start
\* and every count >= 1 (no end), generate_urls yields exactly count URLs,
\* one per page start, start+1, ..., start+count-1, in ascending order; for
\* count <= 0 it yields nothing.
C1_CountedRange ==
    (GenFinished /\ (PlaceholderMode \/ DigitRunMode)
       /\ call.end = None /\ call.count # None) =>
        IF Val(call.count) >= 1
        THEN /\ gen.pc = "done"
             /\ Len(yielded) = Val(call.count)
             /\ \A k \in 1..Len(yielded) : yielded[k].page = call.start + k - 1
        ELSE yielded = <<>>

\* C2: in digit-run mode, for a page number n with 0 <= n < 10^w (w the
\* width of the template's last digit run), the yielded URL has the
\* template's length, equals the template outside that run, and the run is
\* n zero-padded to w digits: w digits that read back as n.
C2_DigitRunReplaced ==
    \A k \in 1..Len(yielded) :
        LET t == call.template
            u == yielded[k].url
            n == yielded[k].page
            lo == LastRunStart(t)
            hi == LastRunEnd(t)
        IN  (pc = "gen" /\ DigitRunMode /\ 0 <= n /\ n < Pow10(hi - lo + 1)) =>
                /\ Len(u) = Len(t)
                /\ \A j \in 1..Len(t) : (j < lo \/ j > hi) => u[j] = t[j]
                /\ \A j \in lo..hi : u[j] \in Digits
                /\ StrToNat(SubSeq(u, lo, hi)) = n

\* C2's case: a template with two digit runs whose last, two digits wide,
\* has been replaced by a one-digit and by a two-digit page number
C2_Witness ==
    /\ pc = "gen"
    /\ call.template = TplTwoRuns
    /\ \E j, k \in 1..Len(yielded) : yielded[j].page = 9 /\ yielded[k].page = 10

\* The placeholder of a template: its first {page} or {page:Nd} or
\* {page:0Nd}, and the width N it declares (0 for the plain {page}).
MarkerStart(t) == Min(FmtMatches(t))
MarkerEnd(t) ==
    LET k == MarkerStart(t)
    IN  IF t[k + 5] = "}" THEN k + 5 ELSE DigitRunEndFrom(t, k + 6) + 2
DeclaredWidth(t) ==
    LET k == MarkerStart(t)
    IN  IF t[k + 5] = "}" THEN 0
        ELSE StrToNat(SubSeq(t, k + 6, DigitRunEndFrom(t, k + 6)))
ExpectedPlaceholderUrl(t, n) ==
    SubSeq(t, 1, MarkerStart(t) - 1)
      \o zfill(IntToStr(n), DeclaredWidth(t))
      \o SubSeq(t, MarkerEnd(t) + 1, Len(t))

\* C3: in placeholder mode every yielded URL is the template with the
\* placeholder replaced by the page number, zero-padded to the declared
\* width when the placeholder declares one ({page:02d} or {page:2d}) and
\* plain decimal when it does not; generation does not fail on a template
\* with a well-formed placeholder.
C3_PlaceholderSubstituted ==
    (pc = "gen" /\ PlaceholderMode /\ FmtMatches(call.template) # {}
       /\ ~(call.end = None /\ call.count = None)) =>
        /\ gen.pc # "raised"
        /\ \A k \in 1..Len(yielded) :
              yielded[k].url = ExpectedPlaceholderUrl(call.template, yielded[k].page)

\* ------------------------------------------------------------------------
\* Properties of main (checked under Spec)
\* ------------------------------------------------------------------------
ValueErrors == {"ValueError: no digits and no placeholder",
                "ValueError: no end and no count"}
CallMade == pc \notin {"start", "args", "gen"} /\ failure # "no_url"
BadTemplate == ~Contains(call.template, PagePrefix) /\ ~HasDigits(call.template)
NoRange == call.end = None /\ call.count = None
Captures == {k \in 1..Len(handled) : handled[k].act = "capture"}
FailedCaptures == {k \in Captures : handled[k].outcome # "ok"}
AfterLoop == pc \in {"post", "transform", "pdf"} \/ (pc = "done" /\ failure = "")

\* C4: when the template has neither a digit nor a {page} placeholder, or
\* when neither end nor count is given, generate_urls fails with a
\* ValueError the first time main asks it for a URL: no URL is yielded, no
\* page is handled, no image is written and no post-processing runs.
C4_ConfigErrorBeforePageWork ==
    (CallMade /\ (BadTemplate \/ NoRange)) =>
        /\ yielded = <<>>
        /\ handled = <<>>
        /\ transforms = <<>>
        /\ pdfCalls = <<>>
        /\ pc \in {"export", "loop", "done"}
        /\ gen.pc \in {"start", "raised"}
        /\ gen.pc = "raised" =>
              /\ gen.exc \in ValueErrors
              /\ pc = "done" /\ failure = gen.exc /\ exitCode # 0
        /\ pc = "done" => failure \in ValueErrors \cup {"no_browser"}

\* C4's case: a template with a digit, --limit given but neither --end nor
\* --count, and the run has ended on the generator's ValueError
C4_Witness ==
    /\ pc = "done"
    /\ HasDigits(call.template)
    /\ NoRange
    /\ gen.pc = "raised"
    /\ failure = "ValueError: no end and no count"

\* the number an image's file name carries
NameNumber(img) == StrToNat(LastRun(Stem(img)))

\* C5: the image file of a page is named after the page's number, so the
\* images of two different pages of one run have different names.
C5_ImageNamedAfterPage ==
    /\ \A k \in Captures : NameNumber(handled[k].img) = handled[k].page
    /\ \A j, k \in Captures :
          handled[j].page # handled[k].page => handled[j].img # handled[k].img

\* the pages the command line asks for, and how many the loop handles
RequestedCount ==
    LET e == IF call.end # None THEN Val(call.end)
             ELSE call.start + Val(call.count) - 1
    IN  IF e < call.start THEN 0 ELSE e - call.start + 1
LimitedCount ==
    IF args.limit # None /\ Val(args.limit) > 0 /\ Val(args.limit) < RequestedCount
    THEN Val(args.limit) ELSE RequestedCount

\* C6: a page whose capture fails (navigation timeout, script error,
\* screenshot error) does not end the run: the failure is swallowed, every
\* later page of the range is still handled (captured, or skipped under
\* --skip-existing), post-processing runs and the exit status is 0.
C6_CaptureFailureSwallowed ==
    FailedCaptures # {} =>
        /\ failure = ""
        /\ pc \in {"loop", "post", "transform", "pdf", "done"}
        /\ pc # "loop" =>
              /\ Len(handled) = LimitedCount
              /\ \A k \in 1..Len(handled) : handled[k].page = call.start + k - 1
        /\ pc = "done" => (exitCode = 0 /\ env.drawn = 3)

\* C6's case: a capture failed, the next page was captured, and the run
\* went through post-processing to exit status 0
C6_Witness ==
    /\ pc = "done"
    /\ exitCode = 0
    /\ env.enable_white_black /\ transforms # <<>>
    /\ \E k \in FailedCaptures :
          /\ k + 1 \in Captures
          /\ handled[k + 1].outcome = "ok"
          /\ handled[k].outcome = "nav_timeout"

\* C7: without --print-only, --skip-existing and --limit, a run that gets
\* through the loop makes exactly one capture attempt for every page of
\* start..end, in ascending order: no page is attempted twice (a failed
\* capture is not retried) and none is left out.
C7_OneAttemptPerPage ==
    (~args.print_only /\ ~args.skip_existing /\ args.limit = None) =>
        /\ \A k \in 1..Len(handled) :
              handled[k].act = "capture" /\ handled[k].page = call.start + k - 1
        /\ AfterLoop => Len(handled) = RequestedCount

\* C7's case: such a run has ended, it had several pages, one of them failed
C7_Witness ==
    /\ pc = "done" /\ failure = ""
    /\ ~args.print_only /\ ~args.skip_existing /\ args.limit = None
    /\ Len(handled) >= 2
    /\ Len(handled) = RequestedCount
    /\ FailedCaptures # {}

\* the loop is at a page whose image file exists, with --skip-existing
AtExistingImage ==
    /\ pc = "loop"
    /\ NextUrl.kind = "yield"
    /\ ~args.print_only
    /\ args.skip_existing
    /\ ImgName(NextUrl.url, printed, args.img_format) \in DOMAIN raw

\* C8: with --skip-existing, a page whose image file already exists when
\* its turn comes causes no capture and its file stays as it is; a raw
\* image changes only by the capture of a page with that file name.
C8_SkipExisting ==
    [][ /\ (AtExistingImage /\ pc' # "done") =>
              /\ raw' = raw
              /\ Captures' = Captures
              /\ Len(handled') = Len(handled) + 1
              /\ handled'[Len(handled')].act = "skip"
        /\ \A name \in DOMAIN raw \cap DOMAIN raw' :
              raw'[name] # raw[name] =>
                  /\ Len(handled') = Len(handled) + 1
                  /\ handled'[Len(handled')].act = "capture"
                  /\ handled'[Len(handled')].img = name
      ]_vars

\* C8's case: a page was skipped whose image an earlier run had left, and
\* the file is still that run's
C8_Witness ==
    /\ pc = "done" /\ exitCode = 0
    /\ args.skip_existing
    /\ \E k \in 1..Len(handled) :
          /\ handled[k].act = "skip"
          /\ handled[k].img \in DOMAIN raw
          /\ raw[handled[k].img].by = "old"

\* C9: with --skip-existing and the black-white stage enabled, a page whose
\* raw image and processed image both exist at the start of the run (and
\* are not cleared) is not transformed again: no call of
\* apply_white_black_effect rewrites its processed file.
C9_NoRetransform ==
    (args.skip_existing /\ env.enable_white_black /\ ~env.clear_output_at_start) =>
        \A k \in 1..Len(transforms) :
            ~(/\ transforms[k].name \in DOMAIN fs0.raw
              /\ transforms[k].name \in DOMAIN fs0.processed
              /\ transforms[k].ok)

\* the exit status of line 434, main's return for a missing URL
ConfigExit == 1
ConfigFailures == ValueErrors \cup {"no_url"}

\* C10: main reports what went wrong by its exit status: 0 for a completed
\* run, 3 for a missing browser library, and one status for configuration
\* errors (no URL, a template without page number, no range) that no
\* other failure shares.
C10_ExitCodes ==
    pc = "done" =>
        /\ exitCode = 0 <=> failure = ""
        /\ failure = "no_browser" <=> exitCode = 3
        /\ failure \in ConfigFailures <=> exitCode = ConfigExit

\* ------------------------------------------------------------------------
\* Properties of generate_image_playwright (checked under SpecCapture)
\* ------------------------------------------------------------------------
CapReturned == pc = "cap" /\ cap.pc = "returned"

\* the selector matches no element, or the box query gave None or raised
BoxUnavailable == ~cap.el \/ cap.boxq \in {"none", "raise"}

\* C11: with full-page mode off, a capture whose selector has no bounding
\* box (no element, or the query returns nothing or raises) fails: it
\* returns False and writes no screenshot; with full-page mode on, a capture
\* does not fail for lack of a bounding box.
C11_NoBoxFailsCapture ==
    CapReturned =>
        /\ (~cap.full_page /\ BoxUnavailable) => (cap.ret = "False" /\ cap.shot = "")
        /\ (cap.full_page /\ cap.exc = "") => (cap.ret = "True" /\ cap.shot = "full")

\* C12: whichever way a capture ends, its browser has been released when
\* generate_image_playwright returns: between calls no browser is live, and
\* never are two live at once.
C12_BrowserReleased ==
    /\ live \in {0, 1}
    /\ (pc = "cap" /\ cap.pc \in {"idle", "launch", "return", "returned"}) => live = 0
    /\ (pc = "cap" /\ cap.pc \in {"goto", "detect", "bginfo", "inject", "clip",
                                 "screenshot", "close"}) => live = 1

\* C12's case: a first capture failed at the screenshot with its browser
\* launched, and a second capture has since launched its own
C12_Witness ==
    /\ pc = "cap"
    /\ cap.calls = 2
    /\ cap.pc = "returned"
    /\ cap.exc = "screenshot_error"
    /\ cap.ret = "False"
    /\ live = 0

\* ------------------------------------------------------------------------
\* Properties of convert_images_to_pdf (checked under SpecPdf)
\* ------------------------------------------------------------------------
PdfDone == pc = "pdfdone" /\ Len(pdfCalls) = 1
PngImages == {n \in DOMAIN raw : EndsWith(n, DotPng)}
\* the place of an image among the eligible ones, by file name
Rank(n) == 1 + Cardinality({m \in PngImages : LexLess(m, n)})
\* the PDF directory but for the files named
SameBut(names) ==
    /\ DOMAIN fs0.pdf \ names = DOMAIN pdf \ names
    /\ \A n \in DOMAIN fs0.pdf \ names : pdf[n] = fs0.pdf[n]
PdfOf(n) == Stem(n) \o DotPdf

\* C13: in merged mode, with N >= 1 eligible images (and the library
\* present, no conversion error), convert_images_to_pdf returns True and
\* writes one PDF, pdf_dir/output_name, whose N pages are the N images, one
\* each, in the lexicographic order of their file names; no other file of
\* pdf_dir is touched.
C13_MergedPdf ==
    (PdfDone /\ pdfCalls[1].merge /\ env.img2pdf /\ pdfCalls[1].failAt = 0
       /\ PngImages # {}) =>
        /\ pdfCalls[1].ret
        /\ pdfCalls[1].name \in DOMAIN pdf
        /\ SameBut({pdfCalls[1].name})
        /\ Len(pdf[pdfCalls[1].name].pages) = Cardinality(PngImages)
        /\ \A n \in PngImages :
              <<pdf[pdfCalls[1].name].pages[Rank(n)]>> = raw[n].pages

\* C13's case: three images whose lexicographic order is not the numeric
\* one (page1, page10, page9) and a file that is no image, merged over an
\* older PDF of the same name
C13_Witness ==
    /\ PdfDone /\ pdfCalls[1].merge /\ pdfCalls[1].ret
    /\ Cardinality(PngImages) = 3
    /\ DOMAIN raw # PngImages
    /\ CombinedPdf \in DOMAIN fs0.pdf
    /\ pdf[CombinedPdf].pages = <<1, 10, 9>>

\* C14: on a directory without eligible images (empty, or holding only
\* files of other extensions) convert_images_to_pdf returns False and
\* leaves pdf_dir as it was, in merged and in per-page mode.
C14_NoImagesNoPdf ==
    (PdfDone /\ PngImages = {}) => (~pdfCalls[1].ret /\ pdf = fs0.pdf)

\* C14's case: the library is present and the directory holds a .jpg only
C14_Witness ==
    /\ PdfDone
    /\ env.img2pdf
    /\ PngImages = {}
    /\ raw # EmptyDir
    /\ ~pdfCalls[1].ret

\* C15: in per-page mode (library present) every eligible image in sorted
\* order gets its PDF <stem>.pdf; when the conversion of the k-th image
\* raises, the call returns False, the PDFs of images 1..k-1 are in place
\* and those of the images after k are not touched.
C15_PerPagePdfs ==
    (PdfDone /\ ~pdfCalls[1].merge /\ env.img2pdf /\ PngImages # {}) =>
        LET k == pdfCalls[1].failAt
        IN  /\ pdfCalls[1].ret <=> k = 0
            /\ SameBut({PdfOf(n) : n \in PngImages})
            /\ \A n \in PngImages :
                  IF k = 0 \/ Rank(n) < k
                  THEN /\ PdfOf(n) \in DOMAIN pdf
                       /\ pdf[PdfOf(n)] = File("pdf", "run", raw[n].pages)
                  ELSE Rank(n) > k =>
                          IF PdfOf(n) \in DOMAIN fs0.pdf
                          THEN PdfOf(n) \in DOMAIN pdf /\ pdf[PdfOf(n)] = fs0.pdf[PdfOf(n)]
                          ELSE PdfOf(n) \notin DOMAIN pdf

\* C15's case: three images, the conversion of the second raised; the first
\* one's PDF is written, the third one's, left by an earlier run, is as it was
C15_Witness ==
    /\ PdfDone /\ ~pdfCalls[1].merge
    /\ Cardinality(PngImages) = 3
    /\ pdfCalls[1].failAt = 2
    /\ ~pdfCalls[1].ret
    /\ Img(<<"1">>, DotPdf) \in DOMAIN pdf
    /\ Img(<<"9">>, DotPdf) \in DOMAIN pdf
    /\ pdf[Img(<<"9">>, DotPdf)].by = "old"

\* ------------------------------------------------------------------------
\* Properties of main's PDF stage (checked under Spec)
\* ------------------------------------------------------------------------
RunDone == pc = "done" /\ failure = "" /\ ~args.print_only

\* C16: when the color PDF and a second PDF are both requested, the second
\* is attempted whatever became of the first, and the run ends with exit
\* status 0; no failure of a PDF call ends the run early.
C16_VariantFailureIsolated ==
    /\ pdfCalls # <<>> => (failure = "" /\ pc \in {"pdf", "done"})
    /\ (pc = "pdf" /\ env.enable_color_pdf) =>
          (Len(pdfCalls) = 1 /\ pdfCalls[1].variant = "color")
    /\ (RunDone /\ env.enable_color_pdf /\ env.enable_pdf) =>
          /\ exitCode = 0
          /\ Len(pdfCalls) = 2
          /\ pdfCalls[1].variant = "color"
          /\ pdfCalls[2].variant = IF env.enable_white_black THEN "bw" ELSE "plain"

\* C16's case: the color PDF failed on a conversion error, the black-white
\* PDF was made after it, and the run ended with status 0
C16_Witness ==
    /\ RunDone /\ exitCode = 0
    /\ Len(pdfCalls) = 2
    /\ pdfCalls[1].variant = "color" /\ ~pdfCalls[1].ret /\ pdfCalls[1].failAt = 1
    /\ pdfCalls[2].variant = "bw" /\ pdfCalls[2].ret

\* the four variants of the claim: color or black-white, merged or per page
FourVariants == {"color", "bw"} \X BOOLEAN
\* the variant a call of the assembler makes: the plain PDF of lines 561-570
\* is made from the raw images, as the color one
VariantOf(c) == <<IF c.variant = "bw" THEN "bw" ELSE "color", c.merge>>
\* lines 540-570: the variants main makes under the four switches
RequestedVariants(color, pdf_on, white_black, one_pdf) ==
    (IF color THEN {<<"color", one_pdf>>} ELSE {})
    \cup (IF pdf_on /\ white_black THEN {<<"bw", one_pdf>>} ELSE {})
    \cup (IF pdf_on /\ ~white_black THEN {<<"color", one_pdf>>} ELSE {})

\* C17: every subset of the four PDF variants can be requested in one run,
\* and a run invokes the assembler exactly once for each variant requested
\* and not at all for the others.
C17_AnySubsetOfVariants ==
    RunDone =>
        /\ \A V \in SUBSET FourVariants :
              \E color, pdf_on, white_black, one_pdf \in BOOLEAN :
                  RequestedVariants(color, pdf_on, white_black, one_pdf) = V
        /\ \A v \in FourVariants :
              Cardinality({k \in 1..Len(pdfCalls) : VariantOf(pdfCalls[k]) = v})
                = IF v \in RequestedVariants(env.enable_color_pdf, env.enable_pdf,
                                             env.enable_white_black, env.enable_one_pdf)
                  THEN 1 ELSE 0

\* C18: PDF assembly begins only when the loop over the pages and the
\* transform of every image are over, and from its first call on no image
\* is captured, transformed or otherwise changed.
C18_AssemblyAfterImages ==
    /\ [](pdfCalls # <<>> =>
            /\ pc \in {"pdf", "done"}
            /\ queue = <<>>
            /\ Len(handled) = LimitedCount)
    /\ [][ (pdfCalls' # pdfCalls \/ pdfCalls # <<>>) =>
              /\ raw' = raw
              /\ processed' = processed
              /\ handled' = handled
              /\ transforms' = transforms ]_vars

\* C18's case: pages were captured, images transformed, and both PDFs made
C18_Witness ==
    /\ RunDone
    /\ Len(pdfCalls) = 2
    /\ Len(transforms) >= 2
    /\ Captures # {}

\* the pages a PDF shows
PdfPages(name) == {pdf[name].pages[j] : j \in 1..Len(pdf[name].pages)}
TransformsAllOk == \A t \in 1..Len(transforms) : transforms[t].outcome = "ok"

\* C19: for png and for jpeg alike, every page captured in a run is picked
\* up downstream: with the black-white stage on (and Pillow working) its
\* raw image is transformed into the processed directory under the same
\* name, and every merged PDF the run makes (library present, no conversion
\* error) succeeds and shows the page.
C19_CapturedImagesPickedUp ==
    RunDone =>
        \A k \in Captures :
            handled[k].outcome = "ok" =>
                LET img == handled[k].img
                IN  /\ (env.enable_white_black /\ env.pillow /\ TransformsAllOk) =>
                          /\ \E t \in 1..Len(transforms) :
                                transforms[t].name = img /\ transforms[t].ok
                          /\ img \in DOMAIN processed
                          /\ processed[img] = File("bw", "run", raw[img].pages)
                    /\ \A c \in 1..Len(pdfCalls) :
                          (/\ pdfCalls[c].merge /\ env.img2pdf /\ pdfCalls[c].failAt = 0
                           /\ (pdfCalls[c].variant = "bw" =>
                                  (env.pillow /\ TransformsAllOk))) =>
                              /\ pdfCalls[c].ret
                              /\ pdfCalls[c].name \in DOMAIN pdf
                              /\ raw[img].pages[1] \in PdfPages(pdfCalls[c].name)

\* the stages have read their switches and libraries
LibrariesKnown == env.drawn = 3
\* the PDF directory as the loop left it: as found, or cleared
PdfBeforeStage ==
    IF env.clear_output_at_start THEN clear_output_directories(fs0.pdf) ELSE fs0.pdf

\* C20: without Pillow every apply_white_black_effect call returns False
\* and writes nothing, without img2pdf every convert_images_to_pdf call
\* returns False and writes nothing; neither ends the run: every page of the
\* range is handled, the black-white stage still calls the transform for
\* every raw image, the PDF stage still makes its calls, and main returns 0.
C20_MissingLibraryDegrades ==
    /\ ~env.pillow =>
          /\ \A t \in 1..Len(transforms) : ~transforms[t].ok
          /\ \A n \in DOMAIN processed : processed[n].by = "old"
    /\ (LibrariesKnown /\ ~env.img2pdf) =>
          /\ \A c \in 1..Len(pdfCalls) : ~pdfCalls[c].ret
          /\ pdf = PdfBeforeStage
    /\ (LibrariesKnown /\ (~env.pillow \/ ~env.img2pdf)) =>
          /\ failure = ""
          /\ pc \in {"pdf", "done"}
          /\ Len(handled) = LimitedCount
          /\ env.enable_white_black =>
                Len(transforms)
                  = Cardinality(Glob(raw, RawGlobSuffix(args.img_format)))
          /\ env.enable_color_pdf =>
                (pdfCalls # <<>> /\ pdfCalls[1].variant = "color")
          /\ pc = "done" =>
                /\ exitCode = 0
                /\ env.enable_pdf =>
                      (pdfCalls # <<>>
                       /\ pdfCalls[Len(pdfCalls)].variant
                            = IF env.enable_white_black THEN "bw" ELSE "plain")

\* C20's case: both libraries are absent, pages were captured, the
\* transform was called and so were both PDFs; the run returned 0
C20_Witness ==
    /\ RunDone /\ exitCode = 0
    /\ ~env.pillow /\ ~env.img2pdf
    /\ \E k \in Captures : handled[k].outcome = "ok"
    /\ transforms # <<>>
    /\ Len(pdfCalls) = 2

\* ------------------------------------------------------------------------
\* Properties of main's black-white stage (checked under Spec)
\* ------------------------------------------------------------------------
\* the raw images the stage lists (line 531)
StageImages == {n \in DOMAIN raw : EndsWith(n, RawGlobSuffix(args.img_format))}
StageOver == pc \in {"pdf", "done"} /\ failure = "" /\ ~args.print_only
TransformsOf(n) == {t \in 1..Len(transforms) : transforms[t].name = n}

\* C21: a transform that fails on one image gives a failure for that image
\* only: apply_white_black_effect returns False, the run goes on, and every
\* other image the stage lists is still transformed.
C21_TransformFailureIsolated ==
    /\ transforms # <<>> => (failure = "" /\ pc \in {"transform", "pdf", "done"})
    /\ \A t \in 1..Len(transforms) :
          /\ transforms[t].ok <=> (env.pillow /\ transforms[t].outcome = "ok")
          /\ transforms[t].ok =>
                /\ transforms[t].name \in DOMAIN processed
                /\ processed[transforms[t].name]
                     = File("bw", "run", raw[transforms[t].name].pages)
    /\ (StageOver /\ env.enable_white_black) =>
          \A n \in StageImages : Cardinality(TransformsOf(n)) = 1

\* C21's case: the transform of the first image failed, the second image
\* was transformed after it, and the run went on to its end
C21_Witness ==
    /\ RunDone /\ exitCode = 0
    /\ Len(transforms) >= 2
    /\ transforms[1].outcome = "error" /\ ~transforms[1].ok
    /\ transforms[2].ok

\* the images this run captured, and those whose capture failed in it
CapturedImages == {handled[k].img : k \in {c \in Captures : handled[c].outcome = "ok"}}
FailedImages == {handled[k].img : k \in FailedCaptures} \ CapturedImages

\* C22: with the black-white stage on, the transform is invoked exactly
\* once for every page captured in this run, and never for a page whose
\* capture failed in this run nor for an image that is no page of this run,
\* such as a file an earlier run left in the raw directory.  (Stated for
\* png runs, whose captures the stage does list.)
C22_TransformOnlyCapturedPages ==
    (StageOver /\ env.enable_white_black /\ args.img_format = "png") =>
        /\ \A n \in CapturedImages : Cardinality(TransformsOf(n)) = 1
        /\ \A t \in 1..Len(transforms) : transforms[t].name \in CapturedImages

\* the selector has been resolved (lines 257-270 are behind)
SelectorResolved ==
    /\ pc = "cap"
    /\ cap.pc \in {"bginfo", "inject", "clip", "screenshot", "close"}
       \/ (cap.pc \in {"withexit", "return", "returned"} /\ cap.selector # <<>>)
\* the elements of the page whose id starts with PageContainer
ContainerElements ==
    {i \in 1..Len(cap.dom) :
        /\ Len(cap.dom[i]) >= Len(PageContainer)
        /\ SubSeq(cap.dom[i], 1, Len(PageContainer)) = PageContainer}

\* C23: the target selector is the explicit override (a non-empty string),
\* verbatim and without a query of the DOM, when one is supplied; otherwise
\* '#' plus the id of the first element whose id starts with PageContainer;
\* otherwise '#PageContainer3'.  It is a function of the override and the
\* page alone.
C23_SelectorResolution ==
    SelectorResolved =>
        IF cap.page_selector # None /\ Val(cap.page_selector) # <<>>
        THEN cap.selector = Val(cap.page_selector) /\ ~cap.queried
        ELSE /\ cap.queried
             /\ IF ContainerElements # {}
                THEN cap.selector = <<"#">> \o cap.dom[Min(ContainerElements)]
                ELSE cap.selector = <<"#">> \o PageContainer \o <<"3">>

\* C23's case: no override, a page with two containers of which the first
\* in document order carries the larger number
C23_Witness ==
    /\ pc = "cap" /\ cap.pc = "returned"
    /\ cap.page_selector = None
    /\ Cardinality(ContainerElements) = 2
    /\ cap.selector = Hash \o ContainerId(40)
    /\ cap.ret = "True"

\* C24: in a pipeline run (the selector argument is the one main passes,
\* full-page mode off) the page is clipped to the container detected in its
\* own DOM: the selector used is that of the page's first PageContainer
\* element, whatever number its id carries.
C24_ClipToDetectedContainer ==
    (SelectorResolved /\ ~cap.full_page
       /\ cap.page_selector = Some(PageSelector(<<"p", "0", "7">>, 0))
       /\ ContainerElements # {}) =>
        /\ cap.selector = <<"#">> \o cap.dom[Min(ContainerElements)]
        /\ cap.pc \in {"inject", "clip", "screenshot", "close"} => cap.el

ScreenshotTaken == pc = "cap" /\ cap.shot # ""
\* the integer a float (in tenths) is cut to: the nearest towards zero
Trunc(t) ==
    CHOOSE n \in (0 - 200)..200 :
        \/ t >= 0 /\ n * 10 <= t /\ t < n * 10 + 10
        \/ t < 0 /\ n * 10 >= t /\ t > n * 10 - 10

\* C25: with full-page mode off and a bounding box (x, y, w, h) obtained,
\* the clip passed to the screenshot is (int(x) - p, int(y) - p,
\* int(w) + 2p, int(h) + 2p) for the padding p: the whole-pixel box grown by
\* p on each of its four sides.  With full-page mode on no clip is passed.
C25_ClipRectangle ==
    ScreenshotTaken =>
        /\ cap.full_page => cap.clip_arg = None
        /\ (~cap.full_page /\ cap.box # None) =>
              LET b == Val(cap.box)
                  p == cap.clip_padding
              IN  /\ cap.clip_arg # None
                  /\ Val(cap.clip_arg).x = Trunc(b.x) - p
                  /\ Val(cap.clip_arg).y = Trunc(b.y) - p
                  /\ Val(cap.clip_arg).width = Trunc(b.width) + 2 * p
                  /\ Val(cap.clip_arg).height = Trunc(b.height) + 2 * p
                  /\ Val(cap.clip_arg).x + Val(cap.clip_arg).width
                       = Trunc(b.x) + Trunc(b.width) + p
                  /\ Val(cap.clip_arg).y + Val(cap.clip_arg).height
                       = Trunc(b.y) + Trunc(b.height) + p

\* C25's case: a box with negative, fractional coordinates, a padding, and
\* the clipped screenshot taken
C25_Witness ==
    /\ ScreenshotTaken
    /\ cap.shot = "clip"
    /\ cap.clip_padding = MaxPadding
    /\ cap.box # None /\ Val(cap.box).x < 0
    /\ cap.clip_arg = Some([x |-> 0 - 1 - MaxPadding, y |-> 0 - 2 - MaxPadding,
                            width |-> 9 + 2 * MaxPadding, height |-> 1 + 2 * MaxPadding])

\* ------------------------------------------------------------------------
\* Properties of the range, the limit and the files of a run (under Spec)
\* ------------------------------------------------------------------------
LimitGiven == args.limit # None /\ Val(args.limit) >= 1
\* the run ended for a reason that is none of --limit's: no URL, no
\* browser, no requests library, an error escaping a capture
EndedFromOutside == failure \in {"no_url", "no_browser", "head_check", "capture"}

\* C26: with --limit L (L >= 1), given with or without --end or --count, the
\* run handles at most L URLs and stops iterating, a skipped page counting
\* like a captured one, and the post-processing still runs: the run of a
\* usable template ends without an error, after the PDF stage.
C26_LimitStopsIteration ==
    (LimitGiven /\ CallMade /\ ~BadTemplate /\ ~EndedFromOutside) =>
        /\ Len(handled) <= Val(args.limit)
        /\ Len(handled) = printed
        /\ (pc = "loop" => printed < Val(args.limit))
        /\ (pc = "done" =>
              /\ failure = ""
              /\ exitCode = 0
              /\ ~args.print_only => env.drawn = 3)

\* C27: whenever neither --end nor --count is given the generator is called
\* with end = start + 9, start being --start, else the last digit run of the
\* URL, else 1.
C27_DefaultRange ==
    (CallMade /\ args.end = None /\ args.count = None) =>
        /\ call.start = (IF args.start # None THEN Val(args.start)
                         ELSE IF HasDigits(args.url) THEN StrToNat(LastRun(args.url))
                         ELSE 1)
        /\ call.end = Some(call.start + 9)

\* C28: a --print-only run launches no browser, transforms no image,
\* assembles no PDF, and creates or deletes no file, whatever the switches.
C28_PrintOnlyTouchesNothing ==
    (args.print_only /\ HasDigits(args.url)) =>
        /\ Captures = {}
        /\ transforms = <<>>
        /\ pdfCalls = <<>>
        /\ raw = fs0.raw
        /\ processed = fs0.processed
        /\ pdf = fs0.pdf

\* C29: when the color PDF and the black-white PDF are both made in
\* per-page mode, the two calls write no path of the PDF directory in
\* common, so neither overwrites a PDF of the other.  (Stated for the runs
\* whose two calls both succeed.)
C29_PerPageVariantsDisjoint ==
    (RunDone /\ env.enable_color_pdf /\ env.enable_pdf /\ env.enable_white_black
       /\ ~env.enable_one_pdf /\ Len(pdfCalls) = 2
       /\ pdfCalls[1].ret /\ pdfCalls[2].ret) =>
        pdfCalls[1].wrote \cap pdfCalls[2].wrote = {}

OldFiles(dir) == {n \in DOMAIN dir : dir[n].by = "old"}

\* the first page is about to be captured
FirstCaptureStarts ==
    pc = "loop" /\ ~args.print_only /\ handled = <<>> /\ NextUrl.kind = "yield"

\* C30: with clear-output-at-start on, when the first capture starts the
\* directory the run writes its images to (--out-dir), the processed
\* directory and the PDF directory hold no file an earlier run left, and no
\* such file is transformed later.  (Stated for png runs.)
C30_ClearedBeforeFirstCapture ==
    (env.clear_output_at_start /\ args.img_format = "png") =>
        /\ FirstCaptureStarts =>
              /\ OldFiles(raw) = {}
              /\ OldFiles(processed) = {}
              /\ OldFiles(pdf) = {}
        /\ \A t \in 1..Len(transforms) : raw[transforms[t].name].by = "run"

====
